---- MODULE Spec2Model ----
(***************************************************************************)
(* domparser-tests: tryParseXml (sentinel probe over DOMParser) and the    *)
(* conformance harness of test.js (entrypoint / performTest / httpGet /    *)
(* the loaders of the test case lists).                                    *)
(*                                                                         *)
(* Source text is a sequence of lexemes:                                   *)
(*   "El"    <a/>                    a complete, well-formed element       *)
(*   "Ns"    <a xmlns="http://www.w3.org/XML/1998/namespace"/>             *)
(*                                   a complete element with an illegal    *)
(*                                   namespace declaration                 *)
(*   "Pe"    <r><parsererror/></r>   well-formed, contains an element      *)
(*                                   named like the error marker           *)
(*   "Pr"    <parsererror>..</parsererror>  a saved parser-error document  *)
(*   "<?k1" "<?k2"                   start of a processing instruction     *)
(*                                   with target k1, k2                    *)
(*   "?>"                            end of a processing instruction       *)
(*   "Sp"                            white space                           *)
(***************************************************************************)
EXTENDS Integers, Sequences, FiniteSets, TLC

VARIABLES
    c_pc, c_mode, c_src, c_expectDoc, c_expectString, c_key1, c_doc1,
    c_key2, c_doc2, c_calls,
    epc, oracle, tests, xhr, outcome, passCount, failDetailsList,
    testCount, log, fetched, oracleCalls, performed, keyOf, verdict, expectOf,
    detailsOf,
    l_pc, l_mode, l_loader, l_file, l_tests, l_doc, l_added, l_used, l_xml,
    l_offset, l_visits, l_ended, l_loaded

classifyVars == <<c_pc, c_mode, c_src, c_expectDoc, c_expectString, c_key1,
                  c_doc1, c_key2, c_doc2, c_calls>>

runnerVars == <<epc, oracle, tests, xhr, outcome, passCount, failDetailsList,
                testCount, log, fetched, oracleCalls, performed, keyOf, verdict,
                expectOf, detailsOf>>

loaderVars == <<l_pc, l_mode, l_loader, l_file, l_tests, l_doc, l_added, l_used,
                l_xml, l_offset, l_visits, l_ended, l_loaded>>

vars == <<classifyVars, runnerVars, loaderVars>>

----------------------------------------------------------------------------
(* Bounds *)

MaxLen == 4

NumTests == 2

----------------------------------------------------------------------------
(* JavaScript values *)

Null == [t |-> "null"]

Undefined == [t |-> "undefined"]

Thrown == [t |-> "throw"]

Str(chars) == [t |-> "string", v |-> chars]

TypeofString(x) == x.t = "string"

----------------------------------------------------------------------------
(* Lexemes *)

SourceAlphabet == {"El", "Ns", "Pe", "Pr", "<?k1", "?>", "Sp"}

(* `a`+Math.random().toString(32): one of two tokens, one of which ("k1")  *)
(* also occurs as a processing-instruction target in source text.          *)
Keys == {"k1", "k2"}

(* `<?${key}` *)
PIOpen(key) == IF key = "k1" THEN "<?k1" ELSE "<?k2"

PIOpens == {PIOpen(k) : k \in Keys}

Target(open) == CHOOSE k \in Keys : PIOpen(k) = open

(* the three observed parser families: gecko (always discards), blink       *)
(* (splices a <parsererror> into the root it managed to build), and a       *)
(* parser that throws on malformed input                                    *)
OracleModes == {"discard", "splice", "throw"}

RECURSIVE StringsUpTo(_)
StringsUpTo(n) ==
    IF n = 0 THEN {<<>>}
    ELSE LET shorter == StringsUpTo(n - 1)
         IN shorter \cup {Append(s, c) : s \in {x \in shorter : Len(x) = n - 1},
                                         c \in SourceAlphabet}

Sources == StringsUpTo(MaxLen)

----------------------------------------------------------------------------
(* DOM nodes and documents *)

ElementNode(tag, marker) == [type |-> "element", tag |-> tag, marker |-> marker]

PINode(target, data) == [type |-> "pi", target |-> target, data |-> data]

(* gecko: <parsererror> root holding the message and <sourcetext> *)
GeckoErrorRoot == ElementNode("Pr", FALSE)

(* blink without a root element: <html><body><parsererror> *)
BlinkErrorRoot == ElementNode("html", TRUE)

XMLDocument(children) == [t |-> "XMLDocument", children |-> children]

IsXMLDocument(x) == x.t = "XMLDocument"

MinOf(S) == CHOOSE k \in S : \A j \in S : k <= j

(* first position >= j that is not white space (Len(s)+1 when none) *)
SkipSp(s, j) == MinOf({k \in j..(Len(s) + 1) : k = Len(s) + 1 \/ s[k] # "Sp"})

(* first position >= j holding "?>" (Len(s)+1 when none) *)
FindClose(s, j) == MinOf({k \in j..(Len(s) + 1) : k = Len(s) + 1 \/ s[k] = "?>"})

HasRoot(nodes) == \E n \in 1..Len(nodes) : nodes[n].type = "element"

(* One pass of the XML parser over the document entity: prolog Misc*,      *)
(* exactly one root element, trailing Misc*. Returns the nodes built so    *)
(* far, whether a fatal error stopped the parse and whether a namespace    *)
(* error was reported. nsFatal: the parser treats namespace errors as      *)
(* fatal (expat) or reports them and keeps parsing (libxml2).              *)
RECURSIVE Scan(_, _, _, _, _)
Scan(s, i, nodes, nsErr, nsFatal) ==
    IF i > Len(s)
    THEN [nodes |-> nodes, fatal |-> ~HasRoot(nodes), nsErr |-> nsErr]
    ELSE LET c == s[i]
             stop == [nodes |-> nodes, fatal |-> TRUE, nsErr |-> nsErr]
         IN CASE c = "Sp" -> Scan(s, i + 1, nodes, nsErr, nsFatal)
              [] c \in {"El", "Pe", "Pr"} ->
                    IF HasRoot(nodes) THEN stop
                    ELSE Scan(s, i + 1, Append(nodes, ElementNode(c, FALSE)),
                              nsErr, nsFatal)
              [] c = "Ns" ->
                    IF HasRoot(nodes) \/ nsFatal THEN stop
                    ELSE Scan(s, i + 1, Append(nodes, ElementNode(c, FALSE)),
                              TRUE, nsFatal)
              [] c \in PIOpens ->
                    IF i + 1 > Len(s) THEN stop
                    ELSE IF s[i + 1] = "?>"
                    THEN Scan(s, i + 2, Append(nodes, PINode(Target(c), <<>>)),
                              nsErr, nsFatal)
                    ELSE IF s[i + 1] = "Sp"
                    THEN LET d == SkipSp(s, i + 1)
                             e == FindClose(s, d)
                         IN IF e > Len(s) THEN stop
                            ELSE Scan(s, e + 1,
                                      Append(nodes, PINode(Target(c), SubSeq(s, d, e - 1))),
                                      nsErr, nsFatal)
                    ELSE stop
              [] OTHER -> stop

(* XML (and namespace) well-formedness of a source text *)
IsWellFormed(s) ==
    LET r == Scan(s, 1, <<>>, FALSE, TRUE) IN ~r.fatal /\ ~r.nsErr

(* XMLErrors::InsertErrorMessageBlock: the marker becomes the first child  *)
(* of the root element when there is one, else of a fresh html/body        *)
InsertErrorMessageBlock(nodes) ==
    IF HasRoot(nodes)
    THEN [n \in 1..Len(nodes) |->
             IF nodes[n].type = "element"
             THEN ElementNode(nodes[n].tag, TRUE) ELSE nodes[n]]
    ELSE Append(nodes, BlinkErrorRoot)

(* what the parser hands back for a finished scan r *)
ParseResult(r, mode) ==
    IF ~r.fatal /\ ~r.nsErr THEN XMLDocument(r.nodes)
    ELSE CASE mode = "discard" -> XMLDocument(<<GeckoErrorRoot>>)
           [] mode = "splice" -> XMLDocument(InsertErrorMessageBlock(r.nodes))
           [] OTHER -> Thrown

(* (new DOMParser).parseFromString(src, `application/xml`) *)
parseFromString(s, mode) ==
    ParseResult(Scan(s, 1, <<>>, FALSE, mode # "splice"), mode)

(* the oracle kept the tree, spliced one marker into its root element and  *)
(* kept what follows the root                                              *)
OracleSplices(s, mode) ==
    LET r == Scan(s, 1, <<>>, FALSE, mode # "splice")
    IN mode = "splice" /\ ~r.fatal /\ r.nsErr

(* (new XMLSerializer).serializeToString(doc) *)
RECURSIVE SerializeNodes(_)
SerializeNodes(nodes) ==
    IF nodes = <<>> THEN <<>>
    ELSE LET n == Head(nodes)
             text == IF n.type = "element"
                     THEN IF n.marker THEN <<n.tag, "parsererror">> ELSE <<n.tag>>
                     ELSE IF n.data = <<>> THEN <<PIOpen(n.target), "?>">>
                     ELSE <<PIOpen(n.target), "Sp">> \o n.data \o <<"?>">>
         IN text \o SerializeNodes(Tail(nodes))

serializeToString(doc) == SerializeNodes(doc.children)

lastChild(doc) ==
    IF doc.children = <<>> THEN Null ELSE doc.children[Len(doc.children)]

(* doc.removeChild(doc.lastChild) *)
removeChild(doc) ==
    XMLDocument(SubSeq(doc.children, 1, Len(doc.children) - 1))

----------------------------------------------------------------------------
(* test.js: tryParseXml, parseXmlNative, serialiseXmlNative *)

Trailer(key) == <<PIOpen(key), "?>">>

(* try { doc = parseFromString(..) } catch (x) {} *)
CatchThrown(parsed) == IF parsed = Thrown THEN Null ELSE parsed

IsSentinel(lastNode, key) ==
    ~ \/ lastNode = Null
      \/ lastNode.type # "pi"
      \/ lastNode.target # key
      \/ lastNode.data # <<>>

HasMarkerName(doc) ==
    \E n \in 1..Len(doc.children) :
        /\ doc.children[n].type = "element"
        /\ doc.children[n].tag \in {"Pe", "Pr"} \/ doc.children[n].marker

(* variant: the sentinel is checked but left in the returned document *)
tryParseXml_keepsTrailer(src, key, mode) ==
    IF ~TypeofString(src) THEN Null
    ELSE IF parseFromString(src.v \o Trailer(key), mode) = Thrown THEN Null
    ELSE IF ~IsSentinel(lastChild(parseFromString(src.v \o Trailer(key), mode)), key)
    THEN Null
    ELSE parseFromString(src.v \o Trailer(key), mode)

(* variant: the last node is removed without being inspected *)
tryParseXml_skipsSentinelCheck(src, key, mode) ==
    IF ~TypeofString(src) THEN Null
    ELSE IF parseFromString(src.v \o Trailer(key), mode) = Thrown THEN Null
    ELSE removeChild(parseFromString(src.v \o Trailer(key), mode))

(* variant: any element named parsererror is taken for an error report *)
tryParseXml_rejectsMarkerName(src, key, mode) ==
    IF ~TypeofString(src) THEN Null
    ELSE IF parseFromString(src.v \o Trailer(key), mode) = Thrown THEN Null
    ELSE IF ~IsSentinel(lastChild(parseFromString(src.v \o Trailer(key), mode)), key)
    THEN Null
    ELSE IF HasMarkerName(parseFromString(src.v \o Trailer(key), mode)) THEN Null
    ELSE removeChild(parseFromString(src.v \o Trailer(key), mode))

(* lines 26-38: the document is returned without its last node when that    *)
(* node is the sentinel, else null                                          *)
CheckSentinel(doc, key) ==
    IF ~IsXMLDocument(doc) THEN Null
    ELSE IF ~IsSentinel(lastChild(doc), key) THEN Null
    ELSE removeChild(doc)

(* variant: no try/catch around parseFromString *)
tryParseXml_noCatch(src, key, mode) ==
    IF ~TypeofString(src) THEN Null
    ELSE IF parseFromString(src.v \o Trailer(key), mode) = Thrown THEN Thrown
    ELSE CheckSentinel(parseFromString(src.v \o Trailer(key), mode), key)

(* variant: the data of the last node is not inspected *)
tryParseXml_ignoresData(src, key, mode) ==
    IF ~TypeofString(src) THEN Null
    ELSE IF parseFromString(src.v \o Trailer(key), mode) = Thrown THEN Null
    ELSE IF lastChild(parseFromString(src.v \o Trailer(key), mode)) = Null THEN Null
    ELSE IF lastChild(parseFromString(src.v \o Trailer(key), mode)).type # "pi" THEN Null
    ELSE IF lastChild(parseFromString(src.v \o Trailer(key), mode)).target # key THEN Null
    ELSE removeChild(parseFromString(src.v \o Trailer(key), mode))

tryParseXml(src, key, mode) ==
    IF ~TypeofString(src) THEN Null
    ELSE CheckSentinel(CatchThrown(parseFromString(src.v \o Trailer(key), mode)), key)

(* line 18 is reached, and a token drawn, only past the type check of      *)
(* lines 15-16                                                             *)
DrawsKey(src) == TypeofString(src)

(* variant: the parser is called before the type of src is looked at *)
ParseCalls_beforeTypeCheck(src) == 1

(* the number of parseFromString calls one tryParseXml(src) makes: the one *)
(* of line 22, past the type check                                         *)
ParseCalls(src) == IF TypeofString(src) THEN 1 ELSE 0

(* returns null, a document, or throws what the parser throws *)
parseXmlNative(src, mode) ==
    IF ~TypeofString(src) THEN Null
    ELSE parseFromString(src.v, mode)

(* throws a TypeError unless given a document *)
serialiseXmlNative(doc) ==
    IF ~IsXMLDocument(doc) THEN Thrown
    ELSE Str(serializeToString(doc))

----------------------------------------------------------------------------
(* Loader state while no manifest loader is exercised *)

LoaderOff ==
    /\ l_pc = "off"
    /\ l_mode = "discard"
    /\ l_loader = "none"
    /\ l_file = 0
    /\ l_tests = <<>>
    /\ l_doc = Null
    /\ l_added = <<>>
    /\ l_used = 0
    /\ l_xml = <<>>
    /\ l_offset = 0
    /\ l_visits = <<>>
    /\ l_ended = FALSE
    /\ l_loaded = FALSE

(* Runner state while only the classifier is exercised *)

RunnerOff ==
    /\ epc = "off"
    /\ oracle = "discard"
    /\ tests = <<>>
    /\ xhr = <<>>
    /\ outcome = <<>>
    /\ passCount = 0
    /\ failDetailsList = <<>>
    /\ testCount = 0
    /\ log = <<>>
    /\ fetched = <<>>
    /\ oracleCalls = <<>>
    /\ performed = <<>>
    /\ keyOf = <<>>
    /\ verdict = <<>>
    /\ expectOf = <<>>
    /\ detailsOf = <<>>

(* Classifier specification: one source text, one parser family; the text  *)
(* is parsed directly, then classified twice with fresh tokens.            *)
InitClassify ==
    /\ c_pc = "input"
    /\ c_mode \in OracleModes
    /\ c_src \in {Str(s) : s \in Sources}
    /\ c_expectDoc = Null
    /\ c_expectString = Undefined
    /\ c_key1 = "none"
    /\ c_doc1 = Null
    /\ c_key2 = "none"
    /\ c_doc2 = Null
    /\ c_calls = 0
    /\ RunnerOff
    /\ LoaderOff

(* performTest lines 161-162 on their own *)
NativeParse ==
    /\ c_pc = "input"
    /\ c_pc' = "native"
    /\ c_expectDoc' = parseXmlNative(c_src, c_mode)
    /\ c_expectString' = serialiseXmlNative(parseXmlNative(c_src, c_mode))
    /\ UNCHANGED <<c_mode, c_src, c_key1, c_doc1, c_key2, c_doc2, c_calls,
                   runnerVars, loaderVars>>

Classify ==
    /\ c_pc = "native"
    /\ c_pc' = "once"
    /\ \E key \in Keys :
          /\ c_key1' = IF DrawsKey(c_src) THEN key ELSE "none"
          /\ c_doc1' = tryParseXml(c_src, key, c_mode)
    /\ c_calls' = ParseCalls(c_src)
    /\ UNCHANGED <<c_mode, c_src, c_expectDoc, c_expectString, c_key2, c_doc2,
                   runnerVars, loaderVars>>

ClassifyAgain ==
    /\ c_pc = "once"
    /\ c_pc' = "twice"
    /\ \E key \in Keys :
          /\ c_key2' = IF DrawsKey(c_src) THEN key ELSE "none"
          /\ c_doc2' = tryParseXml(c_src, key, c_mode)
    /\ c_calls' = ParseCalls(c_src)
    /\ UNCHANGED <<c_mode, c_src, c_expectDoc, c_expectString, c_key1, c_doc1,
                   runnerVars, loaderVars>>

(* values of src that are not strings *)
NonStrings == {Null, Undefined, [t |-> "number"], [t |-> "object"]}

(* tryParseXml called with something that is not a string *)
ClassifyNonString ==
    /\ c_pc = "input"
    /\ c_pc' = "nonstring"
    /\ \E src \in NonStrings, key \in Keys :
          /\ c_src' = src
          /\ c_key1' = IF DrawsKey(src) THEN key ELSE "none"
          /\ c_doc1' = tryParseXml(src, key, c_mode)
          /\ c_calls' = ParseCalls(src)
    /\ UNCHANGED <<c_mode, c_expectDoc, c_expectString, c_key2, c_doc2,
                   runnerVars, loaderVars>>

NextClassify == NativeParse \/ Classify \/ ClassifyAgain \/ ClassifyNonString

SpecClassify == InitClassify /\ [][NextClassify]_vars

Classified == c_pc \in {"once", "twice"}

----------------------------------------------------------------------------
(* Claims about the classifier *)

(* C1: for every well-formed source, tryParseXml returns a document whose   *)
(* serialisation equals the serialisation of the direct parse.             *)
C1_Idempotence ==
    (Classified /\ IsWellFormed(c_src.v)) =>
        /\ IsXMLDocument(c_doc1)
        /\ serialiseXmlNative(c_doc1) = c_expectString

C1_Witness ==
    /\ Classified
    /\ c_src.v = <<"El", "Sp", "<?k1", "?>">>
    /\ IsXMLDocument(c_doc1)
    /\ c_expectString = Str(<<"El", "<?k1", "?>">>)

(* C2: whenever the direct parse is nothing but the error report of a       *)
(* malformed source, tryParseXml returns null.                              *)
C2_DiscardSoundness ==
    (/\ Classified
     /\ ~IsWellFormed(c_src.v)
     /\ IsXMLDocument(c_expectDoc)
     /\ c_expectDoc.children \in {<<GeckoErrorRoot>>, <<BlinkErrorRoot>>})
        => c_doc1 = Null

C2_Witness ==
    /\ Classified
    /\ c_mode = "discard"
    /\ c_src.v = <<"El", "<?k1", "Sp">>
    /\ c_key1 = "k1"
    /\ c_expectDoc = XMLDocument(<<GeckoErrorRoot>>)
    /\ c_doc1 = Null

(* C3: with a splicing parser, a source that makes the parser splice its    *)
(* marker is classified malformed (null) and a well-formed source is        *)
(* classified well-formed.                                                  *)
C3_SpliceSoundness ==
    (Classified /\ c_mode = "splice") =>
        /\ OracleSplices(c_src.v, c_mode) => c_doc1 = Null
        /\ IsWellFormed(c_src.v) => IsXMLDocument(c_doc1)

(* C4: a well-formed source with elements named parsererror is classified  *)
(* well-formed by discarding and by splicing parsers, serialisation intact. *)
C4_MarkerNamedContent ==
    (/\ Classified
     /\ c_mode \in {"discard", "splice"}
     /\ IsWellFormed(c_src.v)
     /\ \E i \in 1..Len(c_src.v) : c_src.v[i] \in {"Pe", "Pr"})
        => /\ IsXMLDocument(c_doc1)
           /\ serialiseXmlNative(c_doc1) = c_expectString

C4_Witness ==
    /\ Classified
    /\ c_mode = "discard"
    /\ c_src.v = <<"Pr">>
    /\ c_expectDoc = XMLDocument(<<GeckoErrorRoot>>)
    /\ c_doc1 = XMLDocument(<<GeckoErrorRoot>>)

(* C5: two classifications of the same source by the same parser agree,     *)
(* whichever tokens the two calls drew.                                     *)
C5_Determinism ==
    c_pc = "twice" => ((c_doc1 = Null) <=> (c_doc2 = Null))

(* the document parseFromString built from the source and the trailer of   *)
(* the first classification (Thrown when the parser threw)                 *)
ProbedDocument == parseFromString(c_src.v \o Trailer(c_key1), c_mode)

(* C11: when parseFromString throws inside tryParseXml, tryParseXml returns *)
(* null, as it does for the same source with a parser that discards, and    *)
(* nothing is thrown to the caller.                                         *)
C11_OracleThrowIsMalformed ==
    Classified =>
        /\ c_doc1 # Thrown
        /\ ProbedDocument = Thrown =>
               /\ c_doc1 = Null
               /\ tryParseXml(c_src, c_key1, "discard") = c_doc1

C11_Witness ==
    /\ Classified
    /\ c_mode = "throw"
    /\ c_src.v = <<"El", "El">>
    /\ c_expectDoc = Thrown
    /\ ProbedDocument = Thrown
    /\ c_doc1 = Null

(* C12: called with a value that is not a string, tryParseXml returns null  *)
(* without drawing a token and without any parseFromString call.            *)
C12_NonStringSource ==
    c_pc = "nonstring" =>
        /\ c_doc1 = Null
        /\ c_key1 = "none"
        /\ c_calls = 0

C12_Witness ==
    /\ c_pc = "nonstring"
    /\ c_src = Undefined
    /\ c_doc1 = Null
    /\ c_calls = 0

(* C17: tryParseXml returns a document exactly when the last child of the   *)
(* document parsed from source + trailer is a processing instruction with   *)
(* the token as target and empty data; a source ending in an unterminated   *)
(* processing instruction that the trailer completes is classified          *)
(* malformed.                                                               *)
C17_SentinelCondition ==
    Classified =>
        /\ IsXMLDocument(c_doc1) <=>
               /\ IsXMLDocument(ProbedDocument)
               /\ lastChild(ProbedDocument) # Null
               /\ lastChild(ProbedDocument).type = "pi"
               /\ lastChild(ProbedDocument).target = c_key1
               /\ lastChild(ProbedDocument).data = <<>>
        /\ ~IsXMLDocument(c_doc1) => c_doc1 = Null
        /\ (/\ ~IsWellFormed(c_src.v)
            /\ IsWellFormed(c_src.v \o Trailer(c_key1))) => c_doc1 = Null

C17_Witness ==
    /\ Classified
    /\ c_mode = "splice"
    /\ c_src.v = <<"El", "<?k1", "Sp">>
    /\ c_key1 = "k1"
    /\ lastChild(ProbedDocument) = PINode("k1", <<"<?k1">>)
    /\ c_doc1 = Null

(* C18: a returned document has the children of the probed document but    *)
(* the last one, in the same order, and holds no processing instruction     *)
(* whose target is the token.                                               *)
C18_RemovesOnlySentinel ==
    (Classified /\ IsXMLDocument(c_doc1)) =>
        /\ Len(c_doc1.children) = Len(ProbedDocument.children) - 1
        /\ \A n \in 1..Len(c_doc1.children) :
               c_doc1.children[n] = ProbedDocument.children[n]
        /\ \A n \in 1..Len(c_doc1.children) :
               ~ /\ c_doc1.children[n].type = "pi"
                 /\ c_doc1.children[n].target = c_key1

(* answer.md lines 39-41:                                                   *)
(* doc.documentElement.getElementsByTagName(`parsererror`).length: the      *)
(* elements named parsererror below the root element (a "Pe" root holds     *)
(* one, a spliced marker is one more; the root itself is not counted)       *)
CountParserErrors(doc) ==
    Cardinality({n \in 1..Len(doc.children) :
                    /\ doc.children[n].type = "element"
                    /\ doc.children[n].tag = "Pe"})
    + Cardinality({n \in 1..Len(doc.children) :
                    /\ doc.children[n].type = "element"
                    /\ doc.children[n].marker})

(* answer.md line 41: parser.parseFromString(src+`<?`, `application/xml`) *)
SecondParse(src, key, mode) == parseFromString(src \o <<PIOpen(key)>>, mode)

(* C19: after a successful sentinel probe with n markers in the probed     *)
(* tree: n = 0 gives a document after one parse; n > 0 gives a second       *)
(* parse of the source with an unterminated trailer, whose marker count m   *)
(* decides: null if m = n, a document otherwise. At most two parses.        *)
C19_DifferentialProbe ==
    (/\ Classified
     /\ c_mode \in {"discard", "splice"}
     /\ IsXMLDocument(ProbedDocument)
     /\ IsSentinel(lastChild(ProbedDocument), c_key1)) =>
        /\ c_calls <= 2
        /\ IF CountParserErrors(ProbedDocument) = 0
           THEN IsXMLDocument(c_doc1) /\ c_calls = 1
           ELSE /\ c_calls = 2
                /\ IF CountParserErrors(SecondParse(c_src.v, c_key1, c_mode))
                          = CountParserErrors(ProbedDocument)
                   THEN c_doc1 = Null
                   ELSE IsXMLDocument(c_doc1)

----------------------------------------------------------------------------
(* test.js: httpGet, tryHttpGetString, performTest, entrypoint *)

(* the events an XMLHttpRequest ends with; load carries the HTTP status *)
LoadOk == "load200"

XhrEvents == {"load200", "load404", "abort", "error", "timeout"}

FetchFailures == XhrEvents \ {LoadOk}

(* variant: onSuccess resolves whatever the status is *)
httpGet_ignoresStatus(event, body) ==
    IF event \in {"load200", "load404"}
    THEN [state |-> "resolved",
          responseText |-> IF event = "load200" THEN body ELSE Str(<<>>)]
    ELSE [state |-> "rejected"]

(* the promise of httpGet once the request's event has fired: onload with  *)
(* status 200 resolves with the xhr, every other event rejects             *)
httpGet(event, body) ==
    IF event = "load200"
    THEN [state |-> "resolved", responseText |-> body]
    ELSE [state |-> "rejected"]

tryHttpGetString(event, body) ==
    LET xhrPromise == httpGet(event, body)
    IN IF xhrPromise.state = "resolved" THEN xhrPromise.responseText
       ELSE Undefined

NotRun == [settled |-> "fulfilled", result |-> FALSE, details |-> Undefined,
           oracleCalls |-> 0, verdict |-> Undefined, expectString |-> Undefined]

(* lines 164-194: the assertions on what tryParseXml returned *)
AssertionError(wellformed, doc, expectString) ==
    IF wellformed
    THEN IF doc = Null
         THEN "well-formed xml should parse successfully"
         ELSE IF serialiseXmlNative(doc) # expectString
         THEN "tryParseXml should not affect the resulting document"
         ELSE "none"
    ELSE IF doc # Null
         THEN "malformed xml should fail to parse"
         ELSE "none"

(* variant: details are built and returned whether or not an assertion     *)
(* threw                                                                    *)
TestResult_detailsOnPass(test, href, xml, expectString, doc, error) ==
    [settled |-> "fulfilled",
     result |-> error = "none",
     details |-> [href |-> href,
                  error |-> error,
                  wellformed |-> test.wellformed,
                  xml |-> xml,
                  nativeParserResult |-> expectString],
     oracleCalls |-> 2,
     verdict |-> doc,
     expectString |-> expectString]

TestResult(test, href, xml, expectString, doc, error) ==
    [settled |-> "fulfilled",
     result |-> error = "none",
     details |-> IF error = "none" THEN Undefined
                 ELSE [href |-> href,
                       error |-> error,
                       wellformed |-> test.wellformed,
                       xml |-> xml,
                       nativeParserResult |-> expectString],
     oracleCalls |-> 2,
     verdict |-> doc,
     expectString |-> expectString]

(* lines 164-194, reached with the reference serialisation *)
AssertAndReport(test, href, xml, expectString, doc) ==
    TestResult(test, href, xml, expectString, doc,
               AssertionError(test.wellformed, doc, expectString))

(* lines 161-162: a throw of the reference parse or of the reference        *)
(* serialisation leaves performTest rejected                                *)
CompareWithReference(test, href, xml, expectDoc, key, mode) ==
    IF expectDoc = Thrown \/ serialiseXmlNative(expectDoc) = Thrown
    THEN [NotRun EXCEPT !.settled = "rejected", !.oracleCalls = 1]
    ELSE AssertAndReport(test, href, xml, serialiseXmlNative(expectDoc),
                         tryParseXml(xml, key, mode))

(* lines 156-159: no text, no test *)
performTestOn(test, href, xml, key, mode) ==
    IF ~TypeofString(xml) THEN NotRun
    ELSE CompareWithReference(test, href, xml, parseXmlNative(xml, mode), key, mode)

(* performTest after its fetch has ended with `event`: the settled promise  *)
(* (fulfilled with {result, details} or rejected), with the number of       *)
(* parseFromString calls made, the value tryParseXml returned and the       *)
(* reference serialisation                                                  *)
performTest(test, href, event, key, mode) ==
    performTestOn(test, href, tryHttpGetString(event, test.xml), key, mode)

(* variant: the counter is read before the await (when it is still 0) and   *)
(* written back after it                                                    *)
mapCallback_staleCounter(r, count, list) ==
    IF r.result
    THEN [passCount |-> 0 + 1, failDetailsList |-> list]
    ELSE [passCount |-> count, failDetailsList |-> Append(list, r.details)]

(* the body of the tests.map callback after `await performTest(t)` *)
mapCallback(r, count, list) ==
    IF r.result
    THEN [passCount |-> count + 1, failDetailsList |-> list]
    ELSE [passCount |-> count, failDetailsList |-> Append(list, r.details)]

(* fixtures of the corpus *)
Fixtures ==
    { Str(<<"Pe", "Sp", "<?k1", "?>">>),
      Str(<<"Ns", "<?k1", "?>">>),
      Str(<<"El", "<?k1", "?>", "El">>) }

TestCases == [xml : Fixtures, wellformed : BOOLEAN]

Cases == 1..NumTests

ClassifyOff ==
    /\ c_pc = "off"
    /\ c_mode = "discard"
    /\ c_src = Str(<<>>)
    /\ c_expectDoc = Null
    /\ c_expectString = Undefined
    /\ c_key1 = "none"
    /\ c_doc1 = Null
    /\ c_key2 = "none"
    /\ c_doc2 = Null
    /\ c_calls = 0

(* entrypoint after the loaders returned: `tests` is assembled *)
Init ==
    /\ epc = "loaded"
    /\ oracle \in OracleModes
    /\ tests \in [Cases -> TestCases]
    /\ xhr = [i \in Cases |-> "unsent"]
    /\ outcome = [i \in Cases |-> "none"]
    /\ passCount = 0
    /\ failDetailsList = <<>>
    /\ testCount = 0
    /\ log = <<>>
    /\ fetched = [i \in Cases |-> "none"]
    /\ oracleCalls = [i \in Cases |-> 0]
    /\ performed = [i \in Cases |-> 0]
    /\ keyOf = [i \in Cases |-> "none"]
    /\ verdict = [i \in Cases |-> Undefined]
    /\ expectOf = [i \in Cases |-> Undefined]
    /\ detailsOf = [i \in Cases |-> Undefined]
    /\ ClassifyOff
    /\ LoaderOff

(* logInfo(`${passCount}/${testCount} tests passed`) *)
SummaryLine(count, list, total) ==
    [passed |-> count, failures |-> Len(list), total |-> total]

(* entrypoint lines 117-132: the counters are set up and every task runs    *)
(* synchronously up to xhr.send()                                           *)
StartRun ==
    /\ epc = "loaded"
    /\ testCount' = Len(tests)
    /\ passCount' = 0
    /\ failDetailsList' = <<>>
    /\ xhr' = [i \in Cases |-> "pending"]
    /\ performed' = [i \in Cases |-> performed[i] + 1]
    /\ IF Len(tests) = 0
       THEN /\ epc' = "reported"
            /\ log' = Append(log, SummaryLine(0, <<>>, 0))
       ELSE /\ epc' = "awaiting"
            /\ log' = log
    /\ UNCHANGED <<oracle, tests, outcome, fetched, oracleCalls, keyOf, verdict,
                   expectOf, detailsOf, classifyVars,
                   loaderVars>>

(* Promise.all settles on the first rejection or the last fulfilment *)
PromiseAllSettles(i, r) ==
    \/ r.settled = "rejected"
    \/ \A j \in Cases : j # i => outcome[j] \in {"pass", "fail"}

(* a rejected performTest rejects the callback before it touches the        *)
(* counters                                                                 *)
AfterCallback(r) ==
    IF r.settled = "fulfilled" THEN mapCallback(r, passCount, failDetailsList)
    ELSE [passCount |-> passCount, failDetailsList |-> failDetailsList]

(* variant: nothing is logged when Promise.all settles *)
Report_withoutSummary(settles, after) ==
    /\ epc' = epc
    /\ log' = log

(* entrypoint lines 133-137, reached when Promise.all has settled *)
Report(settles, after) ==
    IF epc = "awaiting" /\ settles
    THEN /\ epc' = "reported"
         /\ log' = Append(log, SummaryLine(after.passCount, after.failDetailsList,
                                           testCount))
    ELSE /\ epc' = epc
         /\ log' = log

(* the map callback of case i resumes with the settled performTest r *)
Resume(i, key, r) ==
    /\ keyOf' = [keyOf EXCEPT ![i] = IF r.oracleCalls = 2 THEN key ELSE "none"]
    /\ outcome' = [outcome EXCEPT ![i] =
                      IF r.settled = "rejected" THEN "rejected"
                      ELSE IF r.result THEN "pass" ELSE "fail"]
    /\ passCount' = AfterCallback(r).passCount
    /\ failDetailsList' = AfterCallback(r).failDetailsList
    /\ oracleCalls' = [oracleCalls EXCEPT ![i] = r.oracleCalls]
    /\ verdict' = [verdict EXCEPT ![i] = r.verdict]
    /\ expectOf' = [expectOf EXCEPT ![i] = r.expectString]
    /\ detailsOf' = [detailsOf EXCEPT ![i] = r.details]
    /\ Report(PromiseAllSettles(i, r), AfterCallback(r))

(* The request of case i ends with `event`: the handler settles the         *)
(* httpGet promise and the continuations of tryHttpGetString, performTest   *)
(* and the map callback run to completion; when this settles Promise.all    *)
(* (first rejection, or last fulfilment) entrypoint goes on to the summary. *)
Settle(i, event) ==
    /\ epc \in {"awaiting", "reported"}
    /\ xhr[i] = "pending"
    /\ xhr' = [xhr EXCEPT ![i] = "done"]
    /\ fetched' = [fetched EXCEPT ![i] = IF event = LoadOk THEN "ok" ELSE "failed"]
    /\ \E key \in Keys :
          Resume(i, key, performTest(tests[i], i, event, key, oracle))
    /\ UNCHANGED <<oracle, tests, testCount, performed, classifyVars,
                   loaderVars>>

onload(i, status) == Settle(i, IF status = 200 THEN "load200" ELSE "load404")

onabort(i) == Settle(i, "abort")

onerror(i) == Settle(i, "error")

ontimeout(i) == Settle(i, "timeout")

Next ==
    \/ StartRun
    \/ \E i \in Cases, status \in {200, 404} : onload(i, status)
    \/ \E i \in Cases : onabort(i)
    \/ \E i \in Cases : onerror(i)
    \/ \E i \in Cases : ontimeout(i)

Spec == Init /\ [][Next]_vars

AllSettled == \A i \in Cases : xhr[i] = "done"

(* entrypoint() is called when the script is loaded (line 914), and every   *)
(* request that was sent ends with one of onload, onabort, onerror or       *)
(* ontimeout (xhr.timeout = requestTimeoutMs)                               *)
FairSpec ==
    /\ Spec
    /\ WF_vars(StartRun)
    /\ \A i \in Cases : WF_vars(\E event \in XhrEvents : Settle(i, event))

----------------------------------------------------------------------------
(* Claims about the test runner *)

CountIn(list, d) == Cardinality({n \in 1..Len(list) : list[n] = d})

(* every case performed on its own, with the token its classification drew *)
(* and a request that ended as its request did (with `failure` if it        *)
(* failed)                                                                  *)
FetchedResults ==
    [i \in Cases |->
        IF fetched[i] = "ok"
        THEN performTest(tests[i], i, LoadOk, keyOf[i], oracle) ELSE NotRun]

SequentialResults(ok, failure) ==
    [i \in Cases |->
        IF fetched[i] = "ok" THEN ok[i]
        ELSE performTest(tests[i], i, failure, keyOf[i], oracle)]

OutcomeOf(r) ==
    IF r.settled = "rejected" THEN "rejected"
    ELSE IF r.result THEN "pass" ELSE "fail"

(* the counters after cases 1..k were performed one after another, in list  *)
(* order, with results r                                                    *)
RECURSIVE SequentialRun(_, _)
SequentialRun(r, k) ==
    IF k = 0 THEN [passCount |-> 0, failDetailsList |-> <<>>]
    ELSE CASE OutcomeOf(r[k]) = "pass" ->
                  [SequentialRun(r, k - 1) EXCEPT !.passCount = @ + 1]
           [] OutcomeOf(r[k]) = "fail" ->
                  [SequentialRun(r, k - 1) EXCEPT
                       !.failDetailsList = Append(@, r[k].details)]
           [] OTHER -> SequentialRun(r, k - 1)

SameEntries(list, other) ==
    /\ Len(list) = Len(other)
    /\ \A n \in 1..Len(list) : CountIn(list, list[n]) = CountIn(other, list[n])

ConcurrentAsSequential(r, run) ==
    /\ \A i \in Cases : outcome[i] = OutcomeOf(r[i])
    /\ passCount = run.passCount
    /\ SameEntries(failDetailsList, run.failDetailsList)

AsSequentialRun(r) == ConcurrentAsSequential(r, SequentialRun(r, NumTests))

AsSequentialRuns(ok) ==
    \A failure \in FetchFailures : AsSequentialRun(SequentialResults(ok, failure))

(* C6: for a fetched fixture performTest reports pass exactly when the case *)
(* is expected malformed and tryParseXml returned null, or expected         *)
(* well-formed and tryParseXml returned a document serialising to the       *)
(* reference serialisation; otherwise it reports fail.                      *)
C6_PassRule ==
    \A i \in Cases :
        fetched[i] = "ok" =>
            outcome[i] =
                IF \/ ~tests[i].wellformed /\ verdict[i] = Null
                   \/ /\ tests[i].wellformed
                      /\ IsXMLDocument(verdict[i])
                      /\ serialiseXmlNative(verdict[i]) = expectOf[i]
                THEN "pass" ELSE "fail"

(* C7: when the summary is reported every case was performed exactly once   *)
(* and has exactly one outcome, and passed + failed = total.                *)
C7_OneOutcomeEach ==
    epc = "reported" =>
        /\ \A i \in Cases : performed[i] = 1 /\ outcome[i] \in {"pass", "fail"}
        /\ log[Len(log)].passed + log[Len(log)].failures = log[Len(log)].total

(* C8: once every request has ended, in whatever order, the verdicts, the   *)
(* pass counter and the failure list are those of the sequential run: no    *)
(* increment and no append is lost.                                         *)
C8_ConcurrentAsSequential == AllSettled => AsSequentialRuns(FetchedResults)

C8_Witness ==
    /\ AllSettled
    /\ passCount = 0
    /\ Len(failDetailsList) >= 2
    /\ failDetailsList[1] # Undefined
    /\ failDetailsList[2] # Undefined
    /\ failDetailsList[1].href = 2
    /\ failDetailsList[2].href = 1

(* C9: no error of one case escapes performTest, and the summary is         *)
(* reported only after every case has produced its outcome.                 *)
C9_ErrorsContained ==
    /\ \A i \in Cases : outcome[i] # "rejected"
    /\ epc = "reported" => \A i \in Cases : outcome[i] \in {"pass", "fail"}

(* C10: a case whose fetch failed is counted as failed, never as passed,    *)
(* without any call of the classifier or the parser; the other cases keep   *)
(* their own outcomes and are aggregated.                                   *)
OthersUnaffected(r) ==
    \A j \in Cases :
        fetched[j] = "ok" =>
            /\ outcome[j] = OutcomeOf(r[j])
            /\ outcome[j] = "fail" => CountIn(failDetailsList, r[j].details) = 1

C10_FetchFailure ==
    \A i \in Cases :
        fetched[i] = "failed" =>
            /\ outcome[i] = "fail"
            /\ oracleCalls[i] = 0
            /\ verdict[i] = Undefined
            /\ CountIn(failDetailsList, Undefined)
                   = Cardinality({j \in Cases : fetched[j] = "failed"})
            /\ passCount = Cardinality({j \in Cases : outcome[j] = "pass"})
            /\ OthersUnaffected(FetchedResults)

C10_Witness ==
    /\ fetched = <<"failed", "ok">>
    /\ outcome = <<"fail", "pass">>
    /\ passCount = 1
    /\ failDetailsList = <<Undefined>>
    /\ epc = "reported"

(* the assertion of performTest that threw for case i, "none" when none     *)
(* did or none was evaluated                                                *)
FailedAssertion(i) ==
    IF verdict[i] = Undefined THEN "none"
    ELSE IF tests[i].wellformed /\ verdict[i] = Null
    THEN "well-formed xml should parse successfully"
    ELSE IF tests[i].wellformed /\ serialiseXmlNative(verdict[i]) # expectOf[i]
    THEN "tryParseXml should not affect the resulting document"
    ELSE IF ~tests[i].wellformed /\ verdict[i] # Null
    THEN "malformed xml should fail to parse"
    ELSE "none"

DiagnosticOf(i) ==
    [href |-> i,
     error |-> FailedAssertion(i),
     wellformed |-> tests[i].wellformed,
     xml |-> tests[i].xml,
     nativeParserResult |-> expectOf[i]]

(* what performTest returned carries a diagnostic exactly when an assertion *)
(* threw, a pass carries none, and the failure list holds each diagnostic   *)
(* once                                                                     *)
DiagnosticsCaptured ==
    \A i \in Cases :
        /\ detailsOf[i] # Undefined <=> FailedAssertion(i) # "none"
        /\ detailsOf[i] # Undefined => detailsOf[i] = DiagnosticOf(i)
        /\ outcome[i] = "pass" => detailsOf[i] = Undefined
        /\ CountIn(failDetailsList, DiagnosticOf(i))
               = IF FailedAssertion(i) # "none" THEN 1 ELSE 0

(* every entry of the failure list stays where it is and as it is *)
FailureListKept ==
    /\ Len(failDetailsList') >= Len(failDetailsList)
    /\ \A n \in 1..Len(failDetailsList) : failDetailsList'[n] = failDetailsList[n]

(* C21: a diagnostic (href, message, expected flag, fixture text, reference *)
(* serialisation) is captured exactly when an assertion of performTest      *)
(* fails; a pass carries none; an entry of the failure list is never        *)
(* changed or removed afterwards.                                           *)
C21_DiagnosticsWriteOnce ==
    /\ []DiagnosticsCaptured
    /\ [][FailureListKept]_vars

C21_Witness ==
    /\ AllSettled
    /\ Len(failDetailsList) = 2
    /\ failDetailsList[1] = DiagnosticOf(1)
    /\ failDetailsList[2] = DiagnosticOf(2)
    /\ detailsOf[1].error = "malformed xml should fail to parse"
    /\ detailsOf[2].error = "well-formed xml should parse successfully"

(* C20: when every request that was sent ends with one of its events, every *)
(* task eventually settles and the summary line is eventually reported,    *)
(* once and only once.                                                      *)
C20_RunCompletes ==
    /\ [](Len(log) <= 1)
    /\ <>[](AllSettled /\ epc = "reported" /\ Len(log) = 1)

C20_Witness ==
    /\ AllSettled
    /\ epc = "reported"
    /\ Len(log) = 1
    /\ fetched = <<"ok", "failed">>
    /\ outcome = <<"fail", "fail">>
    /\ log[1] = SummaryLine(0, failDetailsList, NumTests)
    /\ Len(failDetailsList) = 2

----------------------------------------------------------------------------
(* test.js: the manifest loaders getOasisTests, getXmltestTests,            *)
(* getJapTests, getIbmTests, getSunTests, getEduniTests                     *)

MaxEntries == 2

MaxText == 6

Loaders == {"oasis", "xmltest", "japanese", "ibm", "sun", "eduni"}

(* the number of test case lists each loader reads *)
ManifestCount(loader) ==
    CASE loader = "ibm" -> 3
      [] loader = "sun" -> 3
      [] loader = "eduni" -> 5
      [] OTHER -> 1

(* one entry of each suite's ignore list *)
IgnoredHref(loader) ==
    CASE loader = "oasis" -> "p04pass1.xml"
      [] loader = "xmltest" -> "valid/sa/051.xml"
      [] loader = "ibm" -> "not-wf/P89/ibm89n05.xml"
      [] loader = "sun" -> "not-wf/cond01.xml"
      [] loader = "japanese" -> "pr-xml-euc-jp.xml"
      [] OTHER -> "E27.xml"

IgnoreList(loader) == {IgnoredHref(loader)}

(* getAttribute of an attribute the element does not carry *)
Missing == "(missing)"

(* <TEST URI=.. TYPE=.. ENTITIES=.. VERSION=.. EDITION=..> *)
TestElement(uri, type, entities, version, edition) ==
    [URI |-> uri, TYPE |-> type, ENTITIES |-> entities, VERSION |-> version,
     EDITION |-> edition]

(* TEST elements of a suite's list: every TYPE, a listed URI, and each      *)
(* attribute value the exclusion selector names                             *)
TestElements(loader) ==
    { TestElement("001.xml", "valid", Missing, Missing, Missing),
      TestElement("001.xml", "not-wf", Missing, Missing, Missing),
      TestElement("001.xml", Missing, Missing, Missing, Missing),
      TestElement("001.xml", "error", Missing, Missing, Missing),
      TestElement("001.xml", "invalid", "general", "1.0", "1 2 3 4"),
      TestElement(IgnoredHref(loader), "not-wf", Missing, Missing, Missing),
      TestElement("001.xml", "not-wf", "both", Missing, Missing),
      TestElement("001.xml", "valid", "parameter", Missing, Missing),
      TestElement("001.xml", "valid", Missing, "1.1", Missing),
      TestElement("001.xml", "not-wf", Missing, Missing, "5") }

SeqsUpTo(S, n) == UNION {[1..k -> S] : k \in 0..n}

(* the text of a test case list: its TEST elements in document order, and   *)
(* where a fatal syntax error sits: 0 for none, k for one right before the  *)
(* k-th TEST element (before the root's end tag when k is one more than     *)
(* their number)                                                            *)
ManifestText(entries, errorAt) ==
    [t |-> "string", entries |-> entries, errorAt |-> errorAt]

ManifestTexts(loader, n) ==
    {ManifestText(e[1], e[2]) :
        e \in {x \in SeqsUpTo(TestElements(loader), n) \X (0..(n + 1)) :
                  x[2] <= Len(x[1]) + 1}}

(* the texts a request can deliver: one of `texts` with status 200; what a *)
(* failed request carries is never read                                     *)
ResponseTexts(event, texts) ==
    IF event = LoadOk THEN texts ELSE {CHOOSE text \in texts : TRUE}

(* a parsed list: its TEST elements, and whether it carries a <parsererror> *)
ManifestDocument(elements, marker) ==
    [t |-> "XMLDocument", TEST |-> elements, parsererror |-> marker]

(* (new DOMParser).parseFromString on the text of a list: the gecko error   *)
(* document holds no TEST element, blink keeps what it parsed before the    *)
(* error                                                                    *)
parseManifestFromString(text, mode) ==
    IF text.errorAt = 0 THEN ManifestDocument(text.entries, FALSE)
    ELSE CASE mode = "discard" -> ManifestDocument(<<>>, TRUE)
           [] mode = "splice" ->
                  ManifestDocument(SubSeq(text.entries, 1, text.errorAt - 1), TRUE)
           [] OTHER -> Thrown

(* parseXmlNative on what tryHttpGetString returned for a list *)
parseManifestNative(text, mode) ==
    IF ~TypeofString(text) THEN Null
    ELSE parseManifestFromString(text, mode)

(* variant: [EDITION='5'] is not excluded *)
selectorExclude_withoutEdition(test) ==
    /\ test.TYPE # "error"
    /\ test.ENTITIES # "parameter"
    /\ test.ENTITIES # "both"
    /\ test.VERSION # "1.1"

(* lines 197-205: the :not(..) chain *)
selectorExclude(test) ==
    /\ test.TYPE # "error"
    /\ test.ENTITIES # "parameter"
    /\ test.ENTITIES # "both"
    /\ test.VERSION # "1.1"
    /\ test.EDITION # "5"

(* variant: both loops select with `TEST${selectorExclude}` *)
querySelectorAll_withoutType(doc, notWf) ==
    SelectSeq([n \in 1..Len(doc.TEST) |-> n],
              LAMBDA n : selectorExclude(doc.TEST[n]))

(* doc.querySelectorAll(`TEST[TYPE='not-wf']${selectorExclude}`) when notWf, *)
(* doc.querySelectorAll(`TEST:not([TYPE='not-wf'])${selectorExclude}`)       *)
(* otherwise: the positions of the matching elements, in document order      *)
querySelectorAll(doc, notWf) ==
    SelectSeq([n \in 1..Len(doc.TEST) |-> n],
              LAMBDA n : /\ (doc.TEST[n].TYPE = "not-wf") = notWf
                         /\ selectorExclude(doc.TEST[n]))

(* one for loop of a loader: a case is pushed for every selected element    *)
(* whose URI is not in the ignore list; `node` is the element it came from  *)
RECURSIVE PushTests(_, _, _, _, _)
PushTests(list, doc, selected, ignoreList, wellformed) ==
    IF selected = <<>> THEN list
    ELSE PushTests(
             IF doc.TEST[Head(selected)].URI \in ignoreList THEN list
             ELSE Append(list, [url |-> doc.TEST[Head(selected)].URI,
                                wellformed |-> wellformed,
                                node |-> Head(selected),
                                test |-> doc.TEST[Head(selected)]]),
             doc, Tail(selected), ignoreList, wellformed)

(* the two for loops over a parsed list *)
TestsOf(doc, ignoreList) ==
    PushTests(PushTests(<<>>, doc, querySelectorAll(doc, FALSE), ignoreList, TRUE),
              doc, querySelectorAll(doc, TRUE), ignoreList, FALSE)

(* a list after parseXmlNative: the parser threw, the result is no          *)
(* XMLDocument, or the cases of the document                                *)
LoadedList(doc, ignoreList) ==
    IF doc = Thrown THEN [pc |-> "rejected", doc |-> doc, added |-> <<>>]
    ELSE IF ~IsXMLDocument(doc) THEN [pc |-> "failed", doc |-> doc, added |-> <<>>]
    ELSE [pc |-> "ok", doc |-> doc, added |-> TestsOf(doc, ignoreList)]

(* The text of a sun list, in units: "<TEST A", "<TEST B" the start of a    *)
(* TEST start tag (up to the attributes), "</TEST>" an end tag, "x" any    *)
(* other character.                                                        *)
SunOpens == {"<TEST A", "<TEST B"}

SunClose == "</TEST>"

SunAlphabet == SunOpens \cup {SunClose, "x"}

SunTexts(n) == SeqsUpTo(SunAlphabet, n)

(* the TEST element a start tag stands for: A is a plain not-wf case, B a   *)
(* fifth-edition case                                                      *)
SunTest(open) ==
    IF open = "<TEST A"
    THEN TestElement("001.xml", "not-wf", Missing, Missing, Missing)
    ELSE TestElement("002.xml", "valid", Missing, Missing, "5")

(* xml.slice(offset) *)
slice(xml, offset) == SubSeq(xml, offset + 1, Len(xml))

(* /<TEST[\s\S]+?<\/TEST>/g.exec(text) with lastIndex 0: the leftmost start *)
(* tag that has an end tag at least one character after it, up to the      *)
(* first such end tag; Null when there is none. index counts from 1.       *)
RegexExec(text) ==
    IF \A i \in 1..Len(text) :
           ~ /\ text[i] \in SunOpens
             /\ \E j \in (i + 2)..Len(text) : text[j] = SunClose
    THEN Null
    ELSE LET i == MinOf({k \in 1..Len(text) :
                            /\ text[k] \in SunOpens
                            /\ \E j \in (k + 2)..Len(text) : text[j] = SunClose})
             j == MinOf({k \in (i + 2)..Len(text) : text[k] = SunClose})
         IN [index |-> i, s |-> SubSeq(text, i, j)]

(* the TEST elements started in a fragment, in document order *)
RECURSIVE StartedTests(_)
StartedTests(s) ==
    IF s = <<>> THEN <<>>
    ELSE IF Head(s) \in SunOpens THEN <<SunTest(Head(s))>> \o StartedTests(Tail(s))
    ELSE StartedTests(Tail(s))

(* parseXmlNative(s) for an extracted fragment s: well-formed when only    *)
(* characters stand between its start tag and its end tag                  *)
parseFragmentNative(s, mode) ==
    IF \A k \in 2..(Len(s) - 1) : s[k] = "x"
    THEN ManifestDocument(<<SunTest(s[1])>>, FALSE)
    ELSE CASE mode = "discard" -> ManifestDocument(<<>>, TRUE)
           [] mode = "splice" -> ManifestDocument(StartedTests(s), TRUE)
           [] OTHER -> Thrown

----------------------------------------------------------------------------
(* Loader specification: one loader, one parser family; the lists are      *)
(* fetched one after another.                                              *)

InitLoad ==
    /\ l_pc = "fetch"
    /\ l_mode \in OracleModes
    /\ l_loader \in Loaders
    /\ l_file = 1
    /\ l_tests = <<>>
    /\ l_doc = Null
    /\ l_added = <<>>
    /\ l_used = 0
    /\ l_xml = <<>>
    /\ l_offset = 0
    /\ l_visits = <<>>
    /\ l_ended = FALSE
    /\ l_loaded = FALSE
    /\ ClassifyOff
    /\ RunnerOff

(* getOasisTests, getXmltestTests, getJapTests: one list; `return []` when  *)
(* it is no XMLDocument                                                    *)
LoadManifestAs(r, wellFormedList) ==
    /\ l_pc' = IF r.pc = "rejected" THEN "rejected" ELSE "returned"
    /\ l_tests' = r.added
    /\ l_doc' = r.doc
    /\ l_added' = r.added
    /\ l_loaded' = wellFormedList
    /\ l_used' = IF r.pc = "ok" THEN Len(r.doc.TEST) ELSE 0
    /\ UNCHANGED <<l_mode, l_loader, l_file, l_xml, l_offset, l_visits, l_ended,
                   classifyVars, runnerVars>>

LoadManifest ==
    /\ l_pc = "fetch"
    /\ ManifestCount(l_loader) = 1
    /\ \E event \in XhrEvents :
       \E body \in ResponseTexts(event, ManifestTexts(l_loader, MaxEntries)) :
          LoadManifestAs(
              LoadedList(parseManifestNative(tryHttpGetString(event, body), l_mode),
                         IgnoreList(l_loader)),
              event = LoadOk /\ body.errorAt = 0)

(* getIbmTests, getEduniTests: one turn of the loop over the lists;         *)
(* `continue` when a list is no XMLDocument                                 *)
LoadNextManifestAs(r, wellFormedList) ==
    /\ l_pc' = IF r.pc = "rejected" THEN "rejected"
               ELSE IF l_file = ManifestCount(l_loader) THEN "returned"
               ELSE "fetch"
    /\ l_file' = IF r.pc = "rejected" THEN l_file ELSE l_file + 1
    /\ l_tests' = l_tests \o r.added
    /\ l_doc' = r.doc
    /\ l_added' = r.added
    /\ l_loaded' = (l_loaded \/ wellFormedList)
    /\ l_used' = l_used + (IF r.pc = "ok" THEN Len(r.doc.TEST) ELSE 0)
    /\ UNCHANGED <<l_mode, l_loader, l_xml, l_offset, l_visits, l_ended,
                   classifyVars, runnerVars>>

LoadNextManifest ==
    /\ l_pc = "fetch"
    /\ l_loader \in {"ibm", "eduni"}
    /\ \E event \in XhrEvents :
       \E body \in ResponseTexts(event,
                                 ManifestTexts(l_loader, MaxEntries - l_used)) :
          LoadNextManifestAs(
              LoadedList(parseManifestNative(tryHttpGetString(event, body), l_mode),
                         IgnoreList(l_loader)),
              event = LoadOk /\ body.errorAt = 0)

(* getSunTests lines 745-750: the next list is fetched as text; `return    *)
(* tests` when that fails                                                  *)
SunFetchAs(xml) ==
    /\ l_pc' = IF TypeofString(xml) THEN "scan" ELSE "returned"
    /\ l_xml' = IF TypeofString(xml) THEN xml.v ELSE l_xml
    /\ l_used' = IF TypeofString(xml) THEN l_used + Len(xml.v) ELSE l_used
    /\ l_offset' = 0
    /\ l_visits' = IF TypeofString(xml) THEN <<>> ELSE l_visits
    /\ l_ended' = IF TypeofString(xml) THEN FALSE ELSE l_ended
    /\ UNCHANGED <<l_mode, l_loader, l_file, l_tests, l_doc, l_added, l_loaded,
                   classifyVars, runnerVars>>

SunFetch ==
    /\ l_pc = "fetch"
    /\ l_loader = "sun"
    /\ \E event \in XhrEvents :
       \E text \in ResponseTexts(event, SunTexts(MaxText - l_used)) :
          SunFetchAs(tryHttpGetString(event, Str(text)))

(* lines 752-784: one turn of the for loop. No match ends the loop and the *)
(* next list is fetched; else the fragment is parsed, its cases are pushed *)
(* and offset is advanced by the length of the fragment.                   *)
SunScanAs(m, r) ==
    IF m = Null
    THEN /\ l_ended' = TRUE
         /\ l_file' = l_file + 1
         /\ l_pc' = IF l_file = ManifestCount(l_loader) THEN "returned" ELSE "fetch"
         /\ UNCHANGED <<l_tests, l_doc, l_added, l_offset, l_visits, l_loaded>>
    ELSE /\ l_pc' = CASE r.pc = "rejected" -> "rejected"
                      [] r.pc = "failed" -> "returned"
                      [] OTHER -> "scan"
         /\ l_tests' = l_tests \o r.added
         /\ l_doc' = r.doc
         /\ l_added' = r.added
         /\ l_loaded' = (l_loaded \/ (r.pc = "ok" /\ ~r.doc.parsererror))
         /\ l_visits' = Append(l_visits, l_offset + m.index)
         /\ l_offset' = IF r.pc = "ok" THEN l_offset + Len(m.s) ELSE l_offset
         /\ UNCHANGED <<l_ended, l_file>>

SunScanFragment(m) ==
    SunScanAs(m, IF m = Null THEN Null
                 ELSE LoadedList(parseFragmentNative(m.s, l_mode),
                                 IgnoreList(l_loader)))

SunScan ==
    /\ l_pc = "scan"
    /\ SunScanFragment(RegexExec(slice(l_xml, l_offset)))
    /\ UNCHANGED <<l_mode, l_loader, l_xml, l_used, classifyVars, runnerVars>>

NextLoad == LoadManifest \/ LoadNextManifest \/ SunFetch \/ SunScan

SpecLoad == InitLoad /\ [][NextLoad]_vars

----------------------------------------------------------------------------
(* Claims about the manifest loaders *)

(* an entry the suite leaves out: its URI is in the ignore list, or it is   *)
(* of TYPE error, needs parameter entities, or is XML 1.1 or fifth edition  *)
Excluded(test, ignoreList) ==
    \/ test.URI \in ignoreList
    \/ test.TYPE = "error"
    \/ test.ENTITIES \in {"parameter", "both"}
    \/ test.VERSION = "1.1"
    \/ test.EDITION = "5"

CasesOfNode(n) == {k \in 1..Len(l_added) : l_added[k].node = n}

C14_NoExcludedCase ==
    \A k \in 1..Len(l_tests) : ~Excluded(l_tests[k].test, IgnoreList(l_loader))

C14_Witness ==
    /\ l_loader = "ibm"
    /\ l_pc = "returned"
    /\ IsXMLDocument(l_doc)
    /\ Len(l_doc.TEST) = 2
    /\ l_doc.TEST[1].URI = IgnoredHref("ibm")
    /\ l_doc.TEST[2].EDITION = "5"
    /\ l_added = <<>>
    /\ l_tests = <<>>
    /\ l_loaded

(* C15: a loader never rejects, and returns the empty list when none of     *)
(* its lists could be fetched and parsed.                                   *)
C15_LoaderContainsFailures ==
    /\ l_pc # "rejected"
    /\ (l_pc = "returned" /\ ~l_loaded) => l_tests = <<>>

(* the start positions of the TEST fragments of a text, each found after    *)
(* the end of the one before                                                *)
RECURSIVE FragmentStarts(_, _)
FragmentStarts(xml, from) ==
    IF RegexExec(slice(xml, from)) = Null THEN <<>>
    ELSE <<from + RegexExec(slice(xml, from)).index>>
         \o FragmentStarts(xml, from + RegexExec(slice(xml, from)).index
                                     + Len(RegexExec(slice(xml, from)).s) - 1)

(* C16: when the scan of a sun list has ended, the fragments visited are    *)
(* the fragments of the text, each once and in order.                       *)
C16_ScanVisitsEachOnce ==
    l_ended => l_visits = FragmentStarts(l_xml, 0)

====
